---- MODULE Spec2Model ----
(***************************************************************************)
(* Model of the board automation core of 4pc-ffa-chaturaji-mcts-cpp:       *)
(*   - board_locator.py : BoardLocator.calibrate / _calculate_geometry     *)
(*   - game_controller.py : EngineHandler and GameController               *)
(*                                                                         *)
(* Threads: the main thread (GameController.__init__, then shutdown()),    *)
(* the daemon polling thread (_poll_file), and the environment (the move   *)
(* fetcher that rewrites game_state.json, the engine subprocess).          *)
(*                                                                         *)
(* Floating point pixel values are held as integers counting sevenths of   *)
(* a pixel: the float x is the integer 7*x.  Every division by 7.0 in the  *)
(* source is applied to a difference of whole pixels, so its exact value   *)
(* is an integer here; where the float computation rounds, the conversion  *)
(* back to whole pixels keeps every result the rounding can produce.       *)
(***************************************************************************)
EXTENDS Integers, Sequences, FiniteSets, TLC

None == "None"      \* Python None where the other values are strings
NoGeometry == <<>>   \* Python None where the other values are dicts
NoMove == <<>>       \* Python None (or an empty token) where the others are tokens

(* ------------------------------------------------------------------ *)
(* Bounds of the model                                                 *)
(* ------------------------------------------------------------------ *)
MaxTime == 2        \* timestamps and modification times range over 0..MaxTime
MaxInfo == 1        \* informational lines the engine prints before an answer
MaxShutdowns == 2   \* calls of shutdown() made by the main thread
MaxPage == 1        \* move elements on the page the fetcher scrapes
MaxClock == 3       \* the fetcher's clock ranges over 1..MaxClock

(* ------------------------------------------------------------------ *)
(* Program constants                                                   *)
(* ------------------------------------------------------------------ *)
BoardSteps == 7     \* unit steps between two corner rooks (the 7.0 divisor)
FocusRetries == 5   \* range(5) in _calibrate_board
OrdLowerA == 97     \* ord('a')
Sims == 35000       \* the configured simulation budget (default of --sims)
CoordOffset == 3    \* the offset of _convert_raw_coords (d -> a, rank 4 -> 1)

(* ------------------------------------------------------------------ *)
(* Vectors (pairs of numbers in sevenths of a pixel)                   *)
(* ------------------------------------------------------------------ *)
Abs(x) == IF x < 0 THEN -x ELSE x

VAdd(u, v) == <<u[1] + v[1], u[2] + v[2]>>
VSub(u, v) == <<u[1] - v[1], u[2] - v[2]>>
VScale(k, u) == <<k * u[1], k * u[2]>>

\* float / 7.0
DivSteps(x) == x \div BoardSteps
VDivSteps(u) == <<DivSteps(u[1]), DivSteps(u[2])>>

\* np.array(coords, dtype=float): whole pixels to the float representation
ToFloat(p) == <<BoardSteps * p[1], BoardSteps * p[2]>>

\* int(x) of a float: truncation toward zero
ToInt(x) == IF x >= 0 THEN x \div BoardSteps ELSE -((-x) \div BoardSteps)

(* ------------------------------------------------------------------ *)
(* BoardLocator                                                        *)
(* ------------------------------------------------------------------ *)
Markers == {"R", "G", "B", "Y"}

\* rook_coords[color] = np.array(coords, dtype=float) for every rook found
FloatCoords(found) == [c \in DOMAIN found |-> ToFloat(found[c])]

\* (variant) the 90 degree branch with its two vectors exchanged
DiagonalVectorsSwapped(dx, dy) ==
    IF dx > 0 /\ dy < 0 THEN
        [col |-> <<DivSteps(Abs(dx)), 0>>, row |-> <<0, -DivSteps(Abs(dy))>>]
    ELSE IF dx < 0 /\ dy < 0 THEN
        [col |-> <<-DivSteps(Abs(dx)), 0>>, row |-> <<0, -DivSteps(Abs(dy))>>]
    ELSE IF dx < 0 /\ dy > 0 THEN
        [col |-> <<-DivSteps(Abs(dx)), 0>>, row |-> <<0, DivSteps(Abs(dy))>>]
    ELSE
        [col |-> <<0, DivSteps(Abs(dy))>>, row |-> <<DivSteps(Abs(dx)), 0>>]

\* The four sign patterns of the Red -> Yellow diagonal; the last branch is
\* the source's plain "else".
DiagonalVectors(dx, dy) ==
    IF dx > 0 /\ dy < 0 THEN
        [col |-> <<DivSteps(Abs(dx)), 0>>, row |-> <<0, -DivSteps(Abs(dy))>>]
    ELSE IF dx < 0 /\ dy < 0 THEN
        [col |-> <<0, -DivSteps(Abs(dy))>>, row |-> <<-DivSteps(Abs(dx)), 0>>]
    ELSE IF dx < 0 /\ dy > 0 THEN
        [col |-> <<-DivSteps(Abs(dx)), 0>>, row |-> <<0, DivSteps(Abs(dy))>>]
    ELSE
        [col |-> <<0, DivSteps(Abs(dy))>>, row |-> <<DivSteps(Abs(dx)), 0>>]

\* (variant) the diagonal deduction tried first whenever Yellow is present
UnitVectorsDiagonalFirst(rook_coords) ==
    LET pos_red == rook_coords["R"] IN
    IF "Y" \in DOMAIN rook_coords THEN
        LET vec_diag == VSub(rook_coords["Y"], pos_red)
        IN DiagonalVectors(vec_diag[1], vec_diag[2])
    ELSE IF "G" \in DOMAIN rook_coords /\ "B" \in DOMAIN rook_coords THEN
        [col |-> VDivSteps(VSub(rook_coords["G"], pos_red)),
         row |-> VDivSteps(VSub(rook_coords["B"], pos_red))]
    ELSE NoGeometry

\* (variant) the two edge rooks exchanged: columns toward Blue, rows toward Green
UnitVectorsEdgesSwapped(rook_coords) ==
    LET pos_red == rook_coords["R"] IN
    IF "G" \in DOMAIN rook_coords /\ "B" \in DOMAIN rook_coords THEN
        [col |-> VDivSteps(VSub(rook_coords["B"], pos_red)),
         row |-> VDivSteps(VSub(rook_coords["G"], pos_red))]
    ELSE IF "Y" \in DOMAIN rook_coords THEN
        LET vec_diag == VSub(rook_coords["Y"], pos_red)
            d == DiagonalVectors(vec_diag[1], vec_diag[2])
        IN [col |-> IF "G" \in DOMAIN rook_coords
                    THEN VDivSteps(VSub(rook_coords["G"], pos_red)) ELSE d.col,
            row |-> IF "B" \in DOMAIN rook_coords
                    THEN VDivSteps(VSub(rook_coords["B"], pos_red)) ELSE d.row]
    ELSE NoGeometry

\* (variant) the diagonal deduction without the overwrite by an edge rook
UnitVectorsNoOverwrite(rook_coords) ==
    LET pos_red == rook_coords["R"] IN
    IF "G" \in DOMAIN rook_coords /\ "B" \in DOMAIN rook_coords THEN
        [col |-> VDivSteps(VSub(rook_coords["G"], pos_red)),
         row |-> VDivSteps(VSub(rook_coords["B"], pos_red))]
    ELSE IF "Y" \in DOMAIN rook_coords THEN
        LET vec_diag == VSub(rook_coords["Y"], pos_red)
        IN DiagonalVectors(vec_diag[1], vec_diag[2])
    ELSE NoGeometry

\* Attempt 1 (both edge rooks) and attempt 2 (diagonal deduction, then the
\* per-axis overwrite by an edge rook that is present).
UnitVectors(rook_coords) ==
    LET pos_red == rook_coords["R"] IN
    IF "G" \in DOMAIN rook_coords /\ "B" \in DOMAIN rook_coords THEN
        [col |-> VDivSteps(VSub(rook_coords["G"], pos_red)),
         row |-> VDivSteps(VSub(rook_coords["B"], pos_red))]
    ELSE IF "Y" \in DOMAIN rook_coords THEN
        LET vec_diag == VSub(rook_coords["Y"], pos_red)
            d == DiagonalVectors(vec_diag[1], vec_diag[2])
        IN [col |-> IF "G" \in DOMAIN rook_coords
                    THEN VDivSteps(VSub(rook_coords["G"], pos_red)) ELSE d.col,
            row |-> IF "B" \in DOMAIN rook_coords
                    THEN VDivSteps(VSub(rook_coords["B"], pos_red)) ELSE d.row]
    ELSE NoGeometry

\* (variant) the diagonal deduction is not available: both edge rooks are needed
CalculateGeometryEdgesOnly(rook_coords) ==
    IF {"G", "B"} \subseteq DOMAIN rook_coords
    THEN [origin_a1_center_px |-> rook_coords["R"],
          unit_vec_col |-> UnitVectors(rook_coords).col,
          unit_vec_row |-> UnitVectors(rook_coords).row]
    ELSE NoGeometry

\* _calculate_geometry: the returned dict (square_size, which only feeds the
\* printed diagnostics, is not carried).
CalculateGeometry(rook_coords) ==
    LET uv == UnitVectors(rook_coords) IN
    IF uv = NoGeometry THEN NoGeometry
    ELSE [origin_a1_center_px |-> rook_coords["R"],
          unit_vec_col |-> uv.col,
          unit_vec_row |-> uv.row]

\* calibrate(): screenshot, the four template searches (their result is
\* `found`), the Red rook validation, then _calculate_geometry.
Calibrate(shot_ok, found) ==
    IF ~shot_ok THEN NoGeometry
    ELSE IF "R" \notin DOMAIN found THEN NoGeometry
    ELSE CalculateGeometry(FloatCoords(found))


\* _alg_to_px: 'a1' -> (x, y) whole pixels.  alg is a sequence of two characters.
Files == <<"a", "b", "c", "d", "e", "f", "g", "h">>
Digits == <<"1", "2", "3", "4", "5", "6", "7", "8">>
IndexIn(seq, ch) == CHOOSE i \in 1..Len(seq) : seq[i] = ch
InSeq(seq, ch) == \E i \in 1..Len(seq) : seq[i] = ch

\* ord(ch) for the characters that occur in move tokens
Ord(ch) == IF InSeq(Files, ch) THEN OrdLowerA + IndexIn(Files, ch) - 1
           ELSE IF ch = "R" THEN 82 ELSE IF ch = "T" THEN 84 ELSE 35

\* alg[1] exists and int(alg[1]) succeeds
AlgParses(alg) == Len(alg) >= 2 /\ InSeq(Digits, alg[2])

\* k * u is computed without rounding when k = 0 or u = d / 7.0 is a whole number
NoRounding(k, u) == k = 0 \/ u % BoardSteps = 0

\* int(x) of a computed float whose exact value is x.  A float sum that
\* went through a rounded product can fall just short of a whole non-zero
\* value, and int() then truncates to the neighbour nearer zero: both results
\* are kept for that case.
IntResults(x, exact) ==
    IF exact \/ x % BoardSteps # 0 \/ x = 0 THEN {ToInt(x)}
    ELSE {ToInt(x), IF x > 0 THEN ToInt(x) - 1 ELSE ToInt(x) + 1}

\* (variant) the rank digit used as the row index without the "- 1"
AlgToPxOneBased(geometry, alg) ==
    LET col_idx == Ord(alg[1]) - OrdLowerA
        row_idx == IndexIn(Digits, alg[2])
        u_col == geometry.unit_vec_col
        u_row == geometry.unit_vec_row
        px == VAdd(VAdd(geometry.origin_a1_center_px, VScale(col_idx, u_col)),
                   VScale(row_idx, u_row))
        exact(i) == NoRounding(col_idx, u_col[i]) /\ NoRounding(row_idx, u_row[i])
    IN IntResults(px[1], exact(1)) \X IntResults(px[2], exact(2))

\* the results of _alg_to_px(alg): one pixel pair whenever the float
\* arithmetic is exact
AlgToPx(geometry, alg) ==
    LET col_idx == Ord(alg[1]) - OrdLowerA
        row_idx == IndexIn(Digits, alg[2]) - 1
        u_col == geometry.unit_vec_col
        u_row == geometry.unit_vec_row
        px == VAdd(VAdd(geometry.origin_a1_center_px, VScale(col_idx, u_col)),
                   VScale(row_idx, u_row))
        exact(i) == NoRounding(col_idx, u_col[i]) /\ NoRounding(row_idx, u_row[i])
    IN IntResults(px[1], exact(1)) \X IntResults(px[2], exact(2))

(* ------------------------------------------------------------------ *)
(* move_fetcher: _standardize_move_notation                            *)
(* ------------------------------------------------------------------ *)
\* A title is a sequence of characters; Bullet stands for the character
\* U+2022 that separates the move from its clock stamp.
Bullet == "bullet"

\* raw_title.split(Bullet)[0]
RECURSIVE BeforeBullet(_)
BeforeBullet(s) ==
    IF s = <<>> \/ Head(s) = Bullet THEN <<>>
    ELSE <<Head(s)>> \o BeforeBullet(Tail(s))

\* str.strip()
RECURSIVE StripLeft(_)
StripLeft(s) == IF s # <<>> /\ Head(s) = " " THEN StripLeft(Tail(s)) ELSE s

RECURSIVE StripRight(_)
StripRight(s) ==
    IF s # <<>> /\ s[Len(s)] = " " THEN StripRight(SubSeq(s, 1, Len(s) - 1)) ELSE s

Strip(s) == StripRight(StripLeft(s))

\* s.replace(ch, '')
RECURSIVE RemoveChar(_, _)
RemoveChar(s, ch) ==
    IF s = <<>> THEN <<>>
    ELSE IF Head(s) = ch THEN RemoveChar(Tail(s), ch)
    ELSE <<Head(s)>> \o RemoveChar(Tail(s), ch)

\* s.replace('#S', '')
RECURSIVE RemoveKingCapture(_)
RemoveKingCapture(s) ==
    IF s = <<>> THEN <<>>
    ELSE IF Len(s) >= 2 /\ s[1] = "#" /\ s[2] = "S" THEN RemoveKingCapture(SubSeq(s, 3, Len(s)))
    ELSE <<Head(s)>> \o RemoveKingCapture(Tail(s))

\* the characters [a-n] of the pattern, and chr(ord(c) - 3) of each (Grave
\* stands for the character U+0060)
Grave == "grave"
Letters14 == <<"a", "b", "c", "d", "e", "f", "g", "h", "i", "j", "k", "l", "m", "n">>
ShiftedLetters == <<"^", "_", Grave, "a", "b", "c", "d", "e", "f", "g", "h", "i", "j", "k">>

DecimalDigits == <<"0", "1", "2", "3", "4", "5", "6", "7", "8", "9">>
IsDigit(ch) == InSeq(DecimalDigits, ch)

\* the length of the longest prefix of digits: what the pattern's digits+ takes
RECURSIVE LeadingDigits(_)
LeadingDigits(s) ==
    IF s # <<>> /\ IsDigit(Head(s)) THEN 1 + LeadingDigits(Tail(s)) ELSE 0

\* int(rank_str) of a sequence of digits
RECURSIVE ParseInt(_)
ParseInt(ds) ==
    IF ds = <<>> THEN 0
    ELSE 10 * ParseInt(SubSeq(ds, 1, Len(ds) - 1)) + (IndexIn(DecimalDigits, ds[Len(ds)]) - 1)

\* f"{n}" of an integer
RECURSIVE FormatInt(_)
FormatInt(n) ==
    IF n < 0 THEN <<"-">> \o FormatInt(-n)
    ELSE IF n < 10 THEN <<DecimalDigits[n + 1]>>
    ELSE FormatInt(n \div 10) \o <<DecimalDigits[(n % 10) + 1]>>

\* _convert_raw_coords: column letter and rank both moved by CoordOffset
ConvertRawCoords(col_char, rank_str) ==
    <<ShiftedLetters[IndexIn(Letters14, col_char)]>>
        \o FormatInt(ParseInt(rank_str) - CoordOffset)

\* re.sub of the pattern [a-n] digits+ by _convert_raw_coords: leftmost matches, the
\* digits taken greedily, the scan resuming after each match
RECURSIVE SubCoords(_)
SubCoords(s) ==
    IF s = <<>> THEN <<>>
    ELSE IF InSeq(Letters14, s[1]) /\ Len(s) >= 2 /\ IsDigit(s[2])
    THEN LET k == LeadingDigits(Tail(s))
         IN ConvertRawCoords(s[1], SubSeq(s, 2, k + 1)) \o SubCoords(SubSeq(s, k + 2, Len(s)))
    ELSE <<Head(s)>> \o SubCoords(Tail(s))

\* the game-end markers that are passed through
EndMarkers == { <<"T">>, <<"R">>, <<"#">> }

StandardizeMoveNotation(raw_title) ==
    IF raw_title = <<>> THEN <<>>
    ELSE LET move_part == Strip(BeforeBullet(raw_title)) IN
         IF move_part \in EndMarkers THEN move_part
         ELSE SubCoords(Strip(RemoveChar(RemoveChar(RemoveKingCapture(move_part), "#"), "+")))

\* the scrape of fetch_and_sync_moves: the standardized title of every move
\* element, empty titles and empty results skipped
RECURSIVE ScrapeMoves(_)
ScrapeMoves(titles) ==
    IF titles = <<>> THEN <<>>
    ELSE LET std_move == StandardizeMoveNotation(Head(titles))
         IN (IF std_move # <<>> THEN <<std_move>> ELSE <<>>) \o ScrapeMoves(Tail(titles))

(* ------------------------------------------------------------------ *)
(* Inputs                                                              *)
(* ------------------------------------------------------------------ *)
\* whole-pixel positions at which the corner detector may report a rook
Coords == {-700, 0, 100, 700, 800}
Pos == Coords \X Coords
AnchorPos == {<<0, 0>>, <<100, 100>>}

DetectionsOver(S) == {f \in [S -> Pos] : "R" \in S => f["R"] \in AnchorPos}
AllDetections == UNION {DetectionsOver(S) : S \in SUBSET Markers}

\* the screens used with the orchestration model
MainDetections ==
    { <<>>,
      [c \in {"R"} |-> <<100, 100>>],
      [c \in {"R", "G", "B"} |->
          IF c = "R" THEN <<100, 100>> ELSE IF c = "G" THEN <<800, 100>> ELSE <<100, 800>>],
      [c \in {"R", "Y"} |-> IF c = "R" THEN <<0, 0>> ELSE <<700, -700>>] }

\* move tokens: sequences of characters
TokA1A2 == <<"a", "1", "a", "2">>
TokC2C3 == <<"c", "2", "c", "3">>
Histories == { <<>>, <<TokA1A2, TokC2C3>>, <<TokC2C3>> }

\* the 64 cells, as two-character strings
Cells == {<<Files[i], Digits[j]>> : i \in 1..8, j \in 1..8}

\* best-move tokens used with the move execution model: every source cell,
\* a few destinations, and one token with a promotion character
PxDestinations == {<<"a", "1">>, <<"a", "2">>, <<"b", "1">>, <<"h", "8">>}
PxTokens == {s \o d : s \in Cells, d \in PxDestinations} \cup {<<"a", "7", "a", "8", "r">>}

\* the screens used with the move execution model
PxCoords == {0, 100, 800}
PxPos == PxCoords \X PxCoords
PxDetections ==
    UNION { {f \in [S -> PxPos] : f["R"] = <<100, 100>>} :
              S \in {{"R", "G", "B"}, {"R", "Y"}, {"R", "G", "Y"}, {"R", "B", "Y"}} }
      \cup {[c \in {"R", "Y"} |-> IF c = "R" THEN <<0, 0>> ELSE <<700, -700>>]}

MyColors == {"R"}
Upper(c) == IF c = "r" THEN "R" ELSE IF c = "b" THEN "B"
            ELSE IF c = "y" THEN "Y" ELSE IF c = "g" THEN "G" ELSE c

\* titles of the move elements of the page: the title of the docstring
\* ("f5-f6", a clock stamp after the bullet), a move giving check on the far
\* side of the board, a king capture, a resignation, a timeout, and a title
\* that holds no move
TitleF5F6 == <<"f", "5", "-", "f", "6", " ", Bullet, " ", "2", "3", ":", "4", "0", ":", "0", "2">>
TitleCheck == <<"k", "1", "1", "-", "k", "1", "0", "+", " ", Bullet, " ", "0", ":", "5", "9">>
TitleKingCapture == <<"d", "4", "x", "e", "5", "#", "S">>
TitleResign == <<"R", " ", Bullet, " ", "1", ":", "0", "0">>
TitleTimeout == <<"T">>
TitleNoMove == <<" ", Bullet, " ", "0", ":", "0", "0">>
RawTitles == {TitleF5F6, TitleCheck, TitleKingCapture, TitleResign, TitleTimeout, TitleNoMove}

\* the move lists a page can show
Pages == UNION { [1..n -> RawTitles] : n \in 0..MaxPage }


(* ------------------------------------------------------------------ *)
(* State                                                               *)
(* ------------------------------------------------------------------ *)
VARIABLES
    mainPc,          \* main thread: "init", "focus", "locate", "start_thread",
                     \*   "running", "stopping", "shut", "exited"
    pollPc,          \* polling thread: "notstarted", "loop", "stat", "read",
                     \*   "turn_live", "turn_send", "turn_read", "search_live",
                     \*   "search_send", "search_read", "gui", "sleep", "stopped"
    screen_rooks,    \* what the corner detector finds on the screen
    my_color,        \* GameController.my_color
    focus_tries,     \* iterations done of the focus retry loop (0 outside the loop)
    geometry,        \* GameController.geometry
    board_moves,     \* GameController.board_moves
    last_sync_time,  \* GameController.last_sync_time
    stop_event,      \* GameController.stop_event.is_set()
    moves,           \* the moves argument of _on_new_state / get_turn_color
    engine,          \* EngineHandler.process: "none", "alive", "terminating", "exited"
    eng_req,         \* request the engine has received and not answered
    eng_out,         \* unread lines of the engine's stdout pipe
    cmds,            \* commands written to the engine by the call in progress
    ret,             \* outcome of the last engine call: [kind, value]; kind "raised"
                     \*   with value "read" when it was the file read that raised
    file,            \* game_state.json: [mtime, detection_timestamp, moves]
    pointer,         \* pyautogui calls issued in the current iteration
    shutdown_calls,  \* completed calls of shutdown()
    call_info,       \* history: [dead_entry, restarted, lost] of the call in progress
    replaced,        \* history: the board_moves that the current iteration replaced
    gui_focus,       \* history: switch_to_window in _execute_gui_move of the current
                     \*   iteration: "none" (not called), "ok", "failed"
    artifact_read,   \* history: the artifact in place has been opened by _poll_file
    searched,        \* history: the values of last_sync_time under which search was called
    fetchPc,         \* move fetcher: "scrape", "open_temp", "dump", "replace",
                     \*   "sleep", "stopped"
    page,            \* titles of the move elements that the browser shows
    current_moves,   \* fetch_and_sync_moves: current_moves
    last_sent_moves, \* fetch_and_sync_moves: last_sent_moves
    payload,         \* fetch_and_sync_moves: payload (moves and detection_timestamp)
    temp_file,       \* game_state.json.tmp
    clock            \* time.time() of the fetcher's machine, in ticks

vars == <<mainPc, pollPc, screen_rooks, my_color, focus_tries, geometry,
          board_moves, last_sync_time, stop_event, moves, engine, eng_req,
          eng_out, cmds, ret, file, pointer, shutdown_calls, call_info, replaced,
          gui_focus, artifact_read, searched, fetchPc, page, current_moves,
          last_sent_moves, payload, temp_file, clock>>

mainVars == <<mainPc, focus_tries, geometry, shutdown_calls>>
pollVars == <<pollPc, board_moves, last_sync_time, moves, cmds, ret, pointer, replaced,
              gui_focus>>
engVars == <<engine, eng_req, eng_out>>
inputVars == <<screen_rooks, my_color>>
fetchVars == <<fetchPc, page, current_moves, last_sent_moves, payload, temp_file, clock>>
ctlVars == <<mainPc, pollPc, screen_rooks, my_color, focus_tries, geometry,
             board_moves, last_sync_time, stop_event, moves, engine, eng_req,
             eng_out, cmds, ret, pointer, shutdown_calls, call_info, replaced,
             gui_focus, artifact_read, searched>>

NoCall == [dead_entry |-> FALSE, restarted |-> FALSE, lost |-> FALSE]
NoRet == [kind |-> "none", value |-> None]

\* (variant) the reset carries the time of the launch
ResetFileStamped == [mtime |-> 1, detection_timestamp |-> 1, moves |-> <<>>]

\* the launcher's reset of game_state.json, written before the controller starts
ResetFile == [mtime |-> 1, detection_timestamp |-> 0, moves |-> <<>>]

\* the fetcher at the start of fetch_and_sync_moves
NoTemp == [absent |-> TRUE]
NoPayload == [moves |-> <<>>, detection_timestamp |-> 0]
FetchStart ==
    /\ fetchPc = "scrape"
    /\ page = <<>>
    /\ current_moves = <<>>
    /\ last_sent_moves = <<>>
    /\ payload = NoPayload
    /\ temp_file = NoTemp
    /\ clock = 1

Init ==
    /\ mainPc = "init"
    /\ pollPc = "notstarted"
    /\ screen_rooks \in MainDetections
    /\ my_color \in MyColors
    /\ focus_tries = 0
    /\ geometry = NoGeometry
    /\ board_moves = <<>>
    /\ last_sync_time = 0
    /\ stop_event = FALSE
    /\ moves = <<>>
    /\ engine = "none"
    /\ eng_req = "none"
    /\ eng_out = <<>>
    /\ cmds = <<>>
    /\ ret = NoRet
    /\ file = ResetFile
    /\ pointer = <<>>
    /\ shutdown_calls = 0
    /\ call_info = NoCall
    /\ replaced = <<>>
    /\ gui_focus = "none"
    /\ artifact_read = FALSE
    /\ searched = {}
    /\ FetchStart

(* ------------------------------------------------------------------ *)
(* Main thread: GameController.__init__                                *)
(* ------------------------------------------------------------------ *)
\* EngineHandler.__init__ -> _start_process: sys.exit(1) when the binary is
\* missing, else Popen.
StartEngine ==
    /\ mainPc = "init"
    /\ \E binary_exists \in BOOLEAN :
          IF binary_exists
          THEN /\ engine' = "alive"
               /\ mainPc' = "focus"
          ELSE /\ engine' = engine
               /\ mainPc' = "exited"
    /\ UNCHANGED <<focus_tries, geometry, shutdown_calls, pollVars, inputVars,
                   eng_req, eng_out, stop_event, file, artifact_read, call_info,
                   searched, fetchVars>>

\* one iteration of "for _ in range(5): if switch_to_window(...)"; after the
\* fifth failure "if not found: sys.exit(1)".
FocusAttempt ==
    /\ mainPc = "focus"
    /\ \E focused \in BOOLEAN :
          IF focused
          THEN /\ mainPc' = "locate"
               /\ focus_tries' = 0
          ELSE /\ mainPc' = IF focus_tries + 1 = FocusRetries THEN "exited" ELSE "focus"
               /\ focus_tries' = IF focus_tries + 1 = FocusRetries THEN 0 ELSE focus_tries + 1
    /\ UNCHANGED <<geometry, shutdown_calls, pollVars, engVars, inputVars,
                   stop_event, file, artifact_read, call_info, searched, fetchVars>>

\* (variant) the failed calibration is not checked
CalibrationNeverFatal(geo) == FALSE

\* "if not self.geometry: sys.exit(1)"
CalibrationFatal(geo) == geo = NoGeometry

\* (variant) a fatal calibration stops the engine before the process exits
LocateBoardStoppingEngine ==
    /\ mainPc = "locate"
    /\ \E templates_ok \in BOOLEAN, shot_ok \in BOOLEAN :
          IF ~templates_ok
          THEN /\ geometry' = geometry
               /\ mainPc' = "exited"
          ELSE /\ geometry' = Calibrate(shot_ok, screen_rooks)
               /\ mainPc' = IF CalibrationFatal(geometry') THEN "exited" ELSE "start_thread"
    /\ engine' = IF mainPc' = "exited" /\ engine = "alive" THEN "terminating" ELSE engine
    /\ UNCHANGED <<focus_tries, shutdown_calls, pollVars, eng_req, eng_out, inputVars,
                   stop_event, file, artifact_read, call_info, searched, fetchVars>>

\* BoardLocator(...) (FileNotFoundError when a template is missing, which
\* nothing catches), locator.calibrate(), then the check of its result.
LocateBoard ==
    /\ mainPc = "locate"
    /\ \E templates_ok \in BOOLEAN, shot_ok \in BOOLEAN :
          IF ~templates_ok
          THEN /\ geometry' = geometry
               /\ mainPc' = "exited"
          ELSE /\ geometry' = Calibrate(shot_ok, screen_rooks)
               /\ mainPc' = IF CalibrationFatal(geometry') THEN "exited" ELSE "start_thread"
    /\ UNCHANGED <<focus_tries, shutdown_calls, pollVars, engVars, inputVars,
                   stop_event, file, artifact_read, call_info, searched, fetchVars>>

\* last_sync_time = 0; stop_event = Event(); thread.start()
StartPolling ==
    /\ mainPc = "start_thread"
    /\ last_sync_time' = 0
    /\ stop_event' = FALSE
    /\ pollPc' = "loop"
    /\ mainPc' = "running"
    /\ UNCHANGED <<focus_tries, geometry, shutdown_calls, board_moves, moves, cmds,
                   ret, pointer, replaced, gui_focus, engVars, inputVars, file, artifact_read,
                   call_info, searched, fetchVars>>

(* ------------------------------------------------------------------ *)
(* Main thread: GameController.shutdown                                *)
(* ------------------------------------------------------------------ *)
InCall == pollPc \in {"turn_send", "turn_read", "search_send", "search_read"}

\* self.stop_event.set()
ShutdownSetStop ==
    /\ mainPc \in {"running", "shut"}
    /\ shutdown_calls < MaxShutdowns
    /\ stop_event' = TRUE
    /\ mainPc' = "stopping"
    /\ UNCHANGED <<focus_tries, geometry, shutdown_calls, pollVars, engVars,
                   inputVars, file, artifact_read, call_info, searched, fetchVars>>

\* (variant) the signal is sent to a subprocess that has already exited
EngineStopUnguarded(e) == IF e = "none" THEN e ELSE "terminating"

\* EngineHandler.stop: "if self.process: self.process.terminate()".
\* Popen.terminate() on a process that has already exited does nothing.
EngineStop(e) == IF e = "alive" THEN "terminating" ELSE e

\* self.engine.stop()
ShutdownStopEngine ==
    /\ mainPc = "stopping"
    /\ engine' = EngineStop(engine)
    /\ mainPc' = "shut"
    /\ shutdown_calls' = shutdown_calls + 1
    /\ call_info' = IF InCall /\ engine = "alive"
                    THEN [call_info EXCEPT !.lost = TRUE] ELSE call_info
    /\ UNCHANGED <<focus_tries, geometry, pollVars, eng_req, eng_out, inputVars,
                   stop_event, file, artifact_read, searched, fetchVars>>


(* ------------------------------------------------------------------ *)
(* EngineHandler protocol                                              *)
(* ------------------------------------------------------------------ *)
\* " ".join(moves_list), as a sequence of characters
RECURSIVE JoinMoves(_)
JoinMoves(ms) ==
    IF ms = <<>> THEN <<>>
    ELSE IF Len(ms) = 1 THEN ms[1]
    ELSE ms[1] \o <<" ">> \o JoinMoves(Tail(ms))

\* (variant) only the newest move is sent, the engine keeping the earlier ones
PositionCmdNewestOnly(ms) ==
    <<"position moves ">> \o (IF ms = <<>> THEN <<>> ELSE ms[Len(ms)])

\* f"position moves {moves_str}"
PositionCmd(ms) == <<"position moves ">> \o JoinMoves(ms)
TurnCmd == <<"turn">>
GoCmd == <<"go sims ", Sims>>

\* (variant) no liveness check
ProcessNeverDied(e) == FALSE

\* "if self.process.poll() is not None": the subprocess has exited
ProcessDied(e) == e = "exited"

\* a line of the engine's output is a sequence of words
InfoLines(n) == [i \in 1..n |-> <<"info">>]
TurnAnswers == { <<"turn", "r">>, <<"turn", "b">>, <<"turn", "gameover">>, <<"turn">> }
SearchAnswers == { <<"bestmove", TokA1A2>>, <<"bestmove">> }
Answers(req) == IF req = "turn" THEN TurnAnswers ELSE SearchAnswers

\* (variant) the game-over sentinel is returned like a player identity
ParseTurnKeepSentinel(line) == IF Len(line) > 1 THEN line[2] ELSE None

\* (variant) a best-move line without a token yields a default move
ParseBestMoveDefault(line) == IF Len(line) >= 2 THEN line[2] ELSE TokA1A2

\* get_turn_color on a line that starts with "turn"
ParseTurn(line) ==
    IF Len(line) > 1
    THEN IF line[2] = "gameover" THEN None ELSE line[2]
    ELSE None

\* search on a line that starts with "bestmove"
ParseBestMove(line) == IF Len(line) >= 2 THEN line[2] ELSE NoMove

(* ------------------------------------------------------------------ *)
(* Polling thread: GameController._poll_file                           *)
(* ------------------------------------------------------------------ *)
\* (variant) the loop never looks at the stop flag
LoopNeverExits(flag) == FALSE

\* "while not self.stop_event.is_set()"
LoopExits(flag) == flag

PollLoop ==
    /\ pollPc = "loop"
    /\ pollPc' = IF LoopExits(stop_event) THEN "stopped" ELSE "stat"
    /\ UNCHANGED <<mainVars, board_moves, last_sync_time, moves, cmds, ret, pointer,
                   replaced, gui_focus, engVars, inputVars, stop_event, file, artifact_read,
                   call_info, searched, fetchVars>>

\* "time.sleep(POLL_INTERVAL_SECONDS)" that ends every iteration, whether the
\* body completed or its exception was caught.  The locals and the logs of
\* the iteration end here.
PollSleep ==
    /\ pollPc = "sleep"
    /\ pollPc' = "loop"
    /\ moves' = <<>>
    /\ cmds' = <<>>
    /\ ret' = NoRet
    /\ pointer' = <<>>
    /\ call_info' = NoCall
    /\ replaced' = <<>>
    /\ gui_focus' = "none"
    /\ UNCHANGED <<mainVars, board_moves, last_sync_time, engVars, inputVars,
                   stop_event, file, artifact_read, searched, fetchVars>>

\* (variant) the file is opened only when it is more than a tick newer
MtimeAdvancedByMore(mtime, last) == mtime > last + 1

\* "if mtime > self.last_sync_time"
MtimeAdvanced(mtime, last) == mtime > last

\* os.path.exists / os.path.getmtime / "if mtime > self.last_sync_time"
PollStat ==
    /\ pollPc = "stat"
    /\ pollPc' = IF MtimeAdvanced(file.mtime, last_sync_time) THEN "read" ELSE "sleep"
    /\ UNCHANGED <<mainVars, board_moves, last_sync_time, moves, cmds, ret, pointer,
                   replaced, gui_focus, engVars, inputVars, stop_event, file, artifact_read,
                   call_info, searched, fetchVars>>

\* (variant) an equal timestamp counts as new
IsNewerOrEqual(timestamp, last) == timestamp >= last

\* "if data['detection_timestamp'] > self.last_sync_time"
IsNewer(timestamp, last) == timestamp > last

\* (variant) a history shorter than the recorded one is taken for stale
KeepLongerMoves(old, observed) == IF Len(observed) < Len(old) THEN old ELSE observed

\* _on_new_state: "self.board_moves = moves"
NewBoardMoves(old, observed) == observed

\* what one read of the artifact can give: a complete object; nothing
\* ("open" or json.load raises, or the object has no 'detection_timestamp');
\* an object with a timestamp and no 'moves'
ReadOutcomes == {"parsed", "unreadable", "no_moves"}

\* "with open(...) as f: data = json.load(f)" and data['detection_timestamp']:
\* an exception of any of them goes to the except clause of _poll_file
\* before last_sync_time is touched; data['moves'] is evaluated after the
\* assignment of last_sync_time
ReadArtifact(outcome, data) ==
    [failed |-> outcome = "unreadable",
     has_moves |-> outcome # "no_moves",
     data |-> data]

\* (variant) last_sync_time is left for the end of a successful handling
NewSyncTimeDeferred(timestamp, last) == last

\* "self.last_sync_time = data['detection_timestamp']", executed before
\* _on_new_state is entered
NewSyncTime(timestamp, last) == timestamp

\* after the settle delay: open, json.load, the timestamp test,
\* last_sync_time = timestamp, and the entry of _on_new_state(data['moves']).
\* The file may be unreadable or incomplete when it is opened.
PollRead ==
    /\ pollPc = "read"
    /\ \E outcome \in ReadOutcomes :
         LET read == ReadArtifact(outcome, file)
             data == read.data
         IN IF read.failed
            THEN /\ ret' = [kind |-> "raised", value |-> "read"]
                 /\ pollPc' = "sleep"
                 /\ UNCHANGED <<last_sync_time, board_moves, moves, replaced>>
            ELSE IF IsNewer(data.detection_timestamp, last_sync_time)
            THEN IF read.has_moves
                 THEN /\ last_sync_time' = NewSyncTime(data.detection_timestamp, last_sync_time)
                      /\ board_moves' = NewBoardMoves(board_moves, data.moves)
                      /\ moves' = data.moves
                      /\ replaced' = board_moves
                      /\ pollPc' = "turn_live"
                      /\ ret' = ret
                 ELSE /\ last_sync_time' = NewSyncTime(data.detection_timestamp, last_sync_time)
                      /\ ret' = [kind |-> "raised", value |-> "read"]
                      /\ pollPc' = "sleep"
                      /\ UNCHANGED <<board_moves, moves, replaced>>
            ELSE /\ pollPc' = "sleep"
                 /\ UNCHANGED <<last_sync_time, board_moves, moves, replaced, ret>>
    /\ artifact_read' = TRUE
    /\ UNCHANGED <<mainVars, cmds, pointer, engVars, inputVars, stop_event,
                   file, call_info, gui_focus, searched, fetchVars>>

\* the liveness check that opens get_turn_color and search:
\* "if self.process.poll() is not None: self._start_process()"
LivenessCheck(next) ==
    /\ cmds' = <<>>
    /\ ret' = NoRet
    /\ call_info' = [dead_entry |-> engine = "exited",
                     restarted |-> ProcessDied(engine),
                     lost |-> FALSE]
    /\ IF ProcessDied(engine)
       THEN /\ engine' = "alive"
            /\ eng_req' = "none"
            /\ eng_out' = <<>>
       ELSE UNCHANGED engVars
    /\ pollPc' = next

\* (variant) the exception of a failed write is not caught and ends the thread
SendCommandsUncaught(position, query, req, next) ==
    IF engine = "exited"
    THEN /\ ret' = [kind |-> "raised", value |-> None]
         /\ pollPc' = "stopped"
         /\ UNCHANGED <<cmds, eng_req>>
    ELSE /\ cmds' = <<position, query>>
         /\ eng_req' = req
         /\ pollPc' = next
         /\ ret' = ret

\* the two _send calls; a write to the pipe of an exited process raises
\* BrokenPipeError, which propagates to the except clause of _poll_file
SendCommands(position, query, req, next) ==
    IF engine = "exited"
    THEN /\ ret' = [kind |-> "raised", value |-> None]
         /\ pollPc' = "sleep"
         /\ UNCHANGED <<cmds, eng_req>>
    ELSE /\ cmds' = <<position, query>>
         /\ eng_req' = req
         /\ pollPc' = next
         /\ ret' = ret

TurnLive ==
    /\ pollPc = "turn_live"
    /\ LivenessCheck("turn_send")
    /\ UNCHANGED <<mainVars, board_moves, last_sync_time, moves, pointer, replaced,
                   gui_focus,
                   inputVars, stop_event, file, artifact_read, searched, fetchVars>>

TurnSend ==
    /\ pollPc = "turn_send"
    /\ SendCommands(PositionCmd(moves), TurnCmd, "turn", "turn_read")
    /\ UNCHANGED <<mainVars, board_moves, last_sync_time, moves, pointer, replaced,
                   gui_focus,
                   engine, eng_out, inputVars, stop_event, file, artifact_read, call_info,
                   searched, fetchVars>>

\* (variant) every player's turn is played
AfterTurnAnyPlayer(turn_color) == IF turn_color = None THEN "sleep" ELSE "search_live"

\* _on_new_state after get_turn_color returned turn_color
AfterTurn(turn_color) ==
    IF turn_color = None THEN "sleep"
    ELSE IF Upper(turn_color) = my_color THEN "search_live"
    ELSE "sleep"

\* (variant) get_turn_color returns on the first line it reads, whatever it is
TurnReadFirstLine ==
    /\ pollPc = "turn_read"
    /\ \/ /\ eng_out # <<>>
          /\ eng_out' = Tail(eng_out)
          /\ ret' = [kind |-> "returned", value |-> ParseTurn(Head(eng_out))]
          /\ pollPc' = AfterTurn(ParseTurn(Head(eng_out)))
       \/ /\ eng_out = <<>>
          /\ engine = "exited"
          /\ ret' = [kind |-> "returned", value |-> None]
          /\ pollPc' = AfterTurn(None)
          /\ eng_out' = eng_out
    /\ UNCHANGED <<mainVars, board_moves, last_sync_time, moves, cmds, pointer, replaced,
                   gui_focus,
                   engine, eng_req, inputVars, stop_event, file, artifact_read, call_info,
                   searched, fetchVars>>

\* one readline() of get_turn_color's loop
TurnRead ==
    /\ pollPc = "turn_read"
    /\ \/ /\ eng_out # <<>>
          /\ eng_out' = Tail(eng_out)
          /\ LET line == Head(eng_out) IN
               IF line[1] = "turn"
               THEN /\ ret' = [kind |-> "returned", value |-> ParseTurn(line)]
                    /\ pollPc' = AfterTurn(ParseTurn(line))
               ELSE UNCHANGED <<ret, pollPc>>
       \/ /\ eng_out = <<>>
          /\ engine = "exited"
          /\ ret' = [kind |-> "returned", value |-> None]
          /\ pollPc' = AfterTurn(None)
          /\ eng_out' = eng_out
    /\ UNCHANGED <<mainVars, board_moves, last_sync_time, moves, cmds, pointer, replaced,
                   gui_focus,
                   engine, eng_req, inputVars, stop_event, file, artifact_read, call_info,
                   searched, fetchVars>>

\* _play_move: "best_move = self.engine.search(self.board_moves)"
SearchLive ==
    /\ pollPc = "search_live"
    /\ LivenessCheck("search_send")
    /\ searched' = searched \cup {last_sync_time}
    /\ UNCHANGED <<mainVars, board_moves, last_sync_time, moves, pointer, replaced,
                   gui_focus,
                   inputVars, stop_event, file, artifact_read, fetchVars>>

SearchSend ==
    /\ pollPc = "search_send"
    /\ SendCommands(PositionCmd(board_moves), GoCmd, "search", "search_read")
    /\ UNCHANGED <<mainVars, board_moves, last_sync_time, moves, pointer, replaced,
                   gui_focus,
                   engine, eng_out, inputVars, stop_event, file, artifact_read, call_info,
                   searched, fetchVars>>

\* (variant) the move is executed whatever search returned
AfterSearchAlwaysExecute(best_move) == "gui"

\* (variant) a search that returned no move is made again
AfterSearchRetry(best_move) == IF best_move # NoMove THEN "gui" ELSE "search_live"

\* _play_move after search returned best_move: "if best_move:"
AfterSearch(best_move) == IF best_move # NoMove THEN "gui" ELSE "sleep"

\* one readline() of search's loop
SearchRead ==
    /\ pollPc = "search_read"
    /\ \/ /\ eng_out # <<>>
          /\ eng_out' = Tail(eng_out)
          /\ LET line == Head(eng_out) IN
               IF line[1] = "bestmove"
               THEN /\ ret' = [kind |-> "returned", value |-> ParseBestMove(line)]
                    /\ pollPc' = AfterSearch(ParseBestMove(line))
               ELSE UNCHANGED <<ret, pollPc>>
       \/ /\ eng_out = <<>>
          /\ engine = "exited"
          /\ ret' = [kind |-> "returned", value |-> NoMove]
          /\ pollPc' = AfterSearch(NoMove)
          /\ eng_out' = eng_out
    /\ UNCHANGED <<mainVars, board_moves, last_sync_time, moves, cmds, pointer, replaced,
                   gui_focus,
                   engine, eng_req, inputVars, stop_event, file, artifact_read, call_info,
                   searched, fetchVars>>

\* (variant) the destination slice starts at the head of the token
SliceFromHead(str, a, b) == SubSeq(str, 1, IF b - a + 1 < Len(str) THEN b - a + 1 ELSE Len(str))

\* move_str[a:b] (Python slicing never raises)
Slice(str, a, b) == SubSeq(str, a, IF b < Len(str) THEN b ELSE Len(str))

\* (variant) a window that cannot be focused makes the controller calibrate again
ExecuteGuiMoveRecalibrating ==
    /\ pollPc = "gui"
    /\ \E focused \in BOOLEAN, pointer_ok \in BOOLEAN :
         LET move_str == ret.value
             src_sq == Slice(move_str, 1, 2)
             dst_sq == Slice(move_str, 3, 4)
         IN /\ gui_focus' = IF focused THEN "ok" ELSE "failed"
            /\ IF focused /\ AlgParses(src_sq) /\ AlgParses(dst_sq) /\ pointer_ok
               THEN /\ \E src_px \in AlgToPx(geometry, src_sq),
                          dst_px \in AlgToPx(geometry, dst_sq) :
                           pointer' = << [op |-> "moveTo", px |-> src_px],
                                         [op |-> "click", px |-> src_px],
                                         [op |-> "dragTo", px |-> dst_px] >>
                    /\ geometry' = geometry
               ELSE /\ pointer' = pointer
                    /\ geometry' = Calibrate(focused, screen_rooks)
    /\ pollPc' = "sleep"
    /\ UNCHANGED <<mainPc, focus_tries, shutdown_calls, board_moves, last_sync_time,
                   moves, cmds, ret, replaced, engVars, inputVars, stop_event, file, artifact_read,
                   call_info, searched, fetchVars>>

\* _execute_gui_move: window focus, the two _alg_to_px translations, then
\* moveTo(src) / click() / dragTo(dst); an exception of the translation, or
\* of pyautogui when the sequence starts (its fail-safe, a display that is
\* gone), is caught by the same except clause and nothing is issued.  click()
\* acts where the pointer is, which is the source pixel.
ExecuteGuiMove ==
    /\ pollPc = "gui"
    /\ \E focused \in BOOLEAN, pointer_ok \in BOOLEAN :
         LET move_str == ret.value
             src_sq == Slice(move_str, 1, 2)
             dst_sq == Slice(move_str, 3, 4)
         IN /\ gui_focus' = IF focused THEN "ok" ELSE "failed"
            /\ IF focused /\ AlgParses(src_sq) /\ AlgParses(dst_sq) /\ pointer_ok
               THEN \E src_px \in AlgToPx(geometry, src_sq),
                       dst_px \in AlgToPx(geometry, dst_sq) :
                        pointer' = << [op |-> "moveTo", px |-> src_px],
                                      [op |-> "click", px |-> src_px],
                                      [op |-> "dragTo", px |-> dst_px] >>
               ELSE pointer' = pointer
    /\ pollPc' = "sleep"
    /\ UNCHANGED <<mainVars, board_moves, last_sync_time, moves, cmds, ret, replaced,
                   engVars, inputVars, stop_event, file, artifact_read, call_info,
                   searched, fetchVars>>

PollNext ==
    \/ PollLoop \/ PollStat \/ PollRead \/ PollSleep
    \/ TurnLive \/ TurnSend \/ TurnRead
    \/ SearchLive \/ SearchSend \/ SearchRead
    \/ ExecuteGuiMove

(* ------------------------------------------------------------------ *)
(* Environment                                                         *)
(* ------------------------------------------------------------------ *)
\* The move fetcher replaces game_state.json (os.replace); the file's
\* modification time never goes back.  The polling thread looks at the file
\* only in its stat step and in its read step, and no other thread looks at
\* it: a replacement made at any other moment is observed exactly as one
\* made when the thread is next at the head of its loop, so replacements are
\* taken there (before the stat) and between the stat and the read.
PollerAtFile == pollPc \in {"loop", "read"}

ArtifactWrite ==
    /\ PollerAtFile
    /\ \E m \in file.mtime..MaxTime, t \in 0..MaxTime, h \in Histories :
          file' = [mtime |-> m, detection_timestamp |-> t, moves |-> h]
    /\ artifact_read' = FALSE
    /\ UNCHANGED <<mainVars, pollVars, engVars, inputVars, stop_event, call_info,
                   searched, fetchVars>>

\* the engine answers the request it has read: informational lines, then the
\* answer line, or it crashes before the answer line
EngineReply ==
    /\ engine = "alive"
    /\ eng_req # "none"
    /\ \E n \in 0..MaxInfo, ans \in Answers(eng_req) \cup {<<>>} :
          /\ eng_out' = eng_out \o InfoLines(n) \o (IF ans = <<>> THEN <<>> ELSE <<ans>>)
          /\ engine' = IF ans = <<>> THEN "exited" ELSE engine
          /\ call_info' = IF ans = <<>> /\ InCall
                          THEN [call_info EXCEPT !.lost = TRUE] ELSE call_info
    /\ eng_req' = "none"
    /\ UNCHANGED <<mainVars, pollVars, inputVars, stop_event, file, artifact_read,
                   searched, fetchVars>>

\* the subprocess exits: a crash, or the end of a termination
EngineExit ==
    /\ engine \in {"alive", "terminating"}
    /\ engine' = "exited"
    /\ eng_req' = "none"
    /\ call_info' = IF InCall /\ engine = "alive"
                    THEN [call_info EXCEPT !.lost = TRUE] ELSE call_info
    /\ UNCHANGED <<mainVars, pollVars, eng_out, inputVars, stop_event, file, artifact_read,
                   searched, fetchVars>>

(* ------------------------------------------------------------------ *)
(* move_fetcher: fetch_and_sync_moves                                  *)
(* ------------------------------------------------------------------ *)
\* (variant) the payload is written at every poll
ChangedOrNot(current, last) == TRUE

\* "if current_moves != last_sent_moves"
Changed(current, last) == current # last

\* the game advances, or a new game starts, between two scrapes
PageChange ==
    /\ fetchPc = "scrape"
    /\ \E p \in Pages : page' = p /\ p # page
    /\ UNCHANGED <<ctlVars, file, fetchPc, current_moves, last_sent_moves, payload,
                   temp_file, clock>>

\* One pass from the head of the loop to the comparison: the URL test
\* (break), find_elements and the titles (a stale element: continue, with no
\* sleep; any other exception: the except clause and its sleep), then
\* detection_time = time.time() and the payload when the list has changed.
FetchScrape ==
    /\ fetchPc = "scrape"
    /\ \E outcome \in {"scraped", "away", "stale", "error"} :
         IF outcome = "away"
         THEN /\ fetchPc' = "stopped"
              /\ UNCHANGED <<current_moves, payload>>
         ELSE IF outcome = "stale"
         THEN UNCHANGED <<fetchPc, current_moves, payload>>
         ELSE IF outcome = "error"
         THEN /\ fetchPc' = "sleep"
              /\ UNCHANGED <<current_moves, payload>>
         ELSE /\ current_moves' = ScrapeMoves(page)
              /\ IF Changed(current_moves', last_sent_moves)
                 THEN /\ payload' = [moves |-> current_moves', detection_timestamp |-> clock]
                      /\ fetchPc' = "open_temp"
                 ELSE /\ payload' = payload
                      /\ fetchPc' = "sleep"
    /\ UNCHANGED <<ctlVars, file, page, last_sent_moves, temp_file, clock>>

\* _fetch_clock_times, which takes time, then open(temp_file, 'w'): the
\* temporary file exists and is empty
FetchOpenTemp ==
    /\ fetchPc = "open_temp"
    /\ \E now \in {clock, clock + 1} :
         /\ now <= MaxClock
         /\ clock' = now
         /\ temp_file' = [mtime |-> now]
    /\ fetchPc' = "dump"
    /\ UNCHANGED <<ctlVars, file, page, current_moves, last_sent_moves, payload>>

\* json.dump(payload, f) and the close of the with block
FetchDump ==
    /\ fetchPc = "dump"
    /\ temp_file' = [mtime |-> clock,
                     detection_timestamp |-> payload.detection_timestamp,
                     moves |-> payload.moves]
    /\ fetchPc' = "replace"
    /\ UNCHANGED <<ctlVars, file, page, current_moves, last_sent_moves, payload, clock>>

\* os.replace(temp_file, GAME_STATE_FILE): the artifact becomes the temporary
\* file, in one step
Replace(artifact, temp) == temp

\* os.replace, which may raise (the artifact is held open by another
\* process), then "last_sent_moves = current_moves"
FetchReplace ==
    /\ fetchPc = "replace"
    /\ \E replaced_ok \in BOOLEAN :
         IF replaced_ok
         THEN /\ file' = Replace(file, temp_file)
              /\ temp_file' = NoTemp
              /\ last_sent_moves' = current_moves
         ELSE UNCHANGED <<file, temp_file, last_sent_moves>>
    /\ fetchPc' = "sleep"
    /\ UNCHANGED <<ctlVars, page, current_moves, payload, clock>>

\* time.sleep(max(0.05, POLL_INTERVAL_SECONDS + jitter)), or the
\* time.sleep(1) of the except clause: at least one tick of the clock passes
FetchSleep ==
    /\ fetchPc = "sleep"
    /\ clock < MaxClock
    /\ clock' = clock + 1
    /\ fetchPc' = "scrape"
    /\ UNCHANGED <<ctlVars, file, page, current_moves, last_sent_moves, payload, temp_file>>

(* ------------------------------------------------------------------ *)
(* Specifications                                                      *)
(* ------------------------------------------------------------------ *)
Next ==
    \/ StartEngine \/ FocusAttempt \/ LocateBoard \/ StartPolling
    \/ ShutdownSetStop \/ ShutdownStopEngine
    \/ PollLoop \/ PollStat \/ PollRead \/ PollSleep
    \/ TurnLive \/ TurnSend \/ TurnRead
    \/ SearchLive \/ SearchSend \/ SearchRead
    \/ ExecuteGuiMove
    \/ ArtifactWrite \/ EngineReply \/ EngineExit

Spec == Init /\ [][Next]_vars

\* The polling thread is scheduled, a terminated subprocess exits, and a
\* running engine answers the request it was sent.
FairSpec ==
    /\ Spec
    /\ WF_vars(PollNext)
    /\ WF_vars(ShutdownStopEngine)
    /\ WF_vars(EngineExit /\ engine = "terminating")
    /\ WF_vars(EngineReply)

\* The geometry solver alone: every detection set, one calibration.
GeoInit ==
    /\ mainPc = "locate"
    /\ pollPc = "notstarted"
    /\ screen_rooks \in AllDetections
    /\ my_color = "R"
    /\ focus_tries = 0
    /\ geometry = NoGeometry
    /\ board_moves = <<>>
    /\ last_sync_time = 0
    /\ stop_event = FALSE
    /\ moves = <<>>
    /\ engine = "alive"
    /\ eng_req = "none"
    /\ eng_out = <<>>
    /\ cmds = <<>>
    /\ ret = NoRet
    /\ file = ResetFile
    /\ pointer = <<>>
    /\ shutdown_calls = 0
    /\ call_info = NoCall
    /\ replaced = <<>>
    /\ gui_focus = "none"
    /\ artifact_read = FALSE
    /\ searched = {}
    /\ FetchStart

GeoNext == LocateBoard

GeoSpec == GeoInit /\ [][GeoNext]_vars

\* Move execution alone: the controller has calibrated on some screen, the
\* polling thread has accepted an observation and search has just returned
\* a best-move token.
PxInit ==
    /\ mainPc = "running"
    /\ pollPc = "gui"
    /\ screen_rooks \in PxDetections
    /\ my_color = "R"
    /\ focus_tries = 0
    /\ geometry = Calibrate(TRUE, screen_rooks)
    /\ board_moves = <<TokC2C3>>
    /\ last_sync_time = 1
    /\ stop_event = FALSE
    /\ moves = <<TokC2C3>>
    /\ engine = "alive"
    /\ eng_req = "none"
    /\ eng_out = <<>>
    /\ cmds = <<PositionCmd(<<TokC2C3>>), GoCmd>>
    /\ \E tok \in PxTokens : ret = [kind |-> "returned", value |-> tok]
    /\ file = [mtime |-> 1, detection_timestamp |-> 1, moves |-> <<TokC2C3>>]
    /\ pointer = <<>>
    /\ shutdown_calls = 0
    /\ call_info = NoCall
    /\ replaced = <<>>
    /\ gui_focus = "none"
    /\ artifact_read = TRUE
    /\ searched = {}
    /\ FetchStart

PxNext == ExecuteGuiMove

PxSpec == PxInit /\ [][PxNext]_vars

\* The move fetcher alone, from the launcher's reset of the artifact.
FetchInit ==
    /\ Init
    /\ screen_rooks = <<>>

FetchNext ==
    \/ PageChange \/ FetchScrape \/ FetchOpenTemp \/ FetchDump \/ FetchReplace
    \/ FetchSleep

FetchSpec == FetchInit /\ [][FetchNext]_vars

(* ------------------------------------------------------------------ *)
(* Properties                                                          *)
(* ------------------------------------------------------------------ *)
\* the step in which _poll_file calls _on_new_state
AcceptStep == pollPc = "read" /\ pollPc' = "turn_live"

\* C1: _on_new_state is called only for an observation whose
\* detection_timestamp is strictly greater than last_sync_time, whatever the
\* file's modification time; last_sync_time moves only in a read, to the
\* timestamp read, which is greater, and the history only in such a call, so
\* the timestamps acted on strictly increase and last_sync_time never decreases.
C1_OnlyNewerObservations ==
    [][ /\ last_sync_time' >= last_sync_time
        /\ (AcceptStep => /\ file.detection_timestamp > last_sync_time
                          /\ last_sync_time' = file.detection_timestamp)
        /\ (pollPc' = "turn_live" /\ pollPc # "turn_live" => AcceptStep)
        /\ (board_moves' # board_moves => AcceptStep)
        /\ (last_sync_time' # last_sync_time
              => /\ pollPc = "read"
                 /\ last_sync_time' = file.detection_timestamp
                 /\ file.detection_timestamp > last_sync_time)
      ]_vars

\* an observation whose modification time is new and whose timestamp is not
\* was read and ignored
C1_Witness ==
    /\ pollPc = "sleep"
    /\ cmds = <<>>
    /\ last_sync_time > 0
    /\ file.mtime > last_sync_time
    /\ file.detection_timestamp <= last_sync_time

\* C2: an accepted observation makes board_moves exactly the observed moves,
\* whatever the old history was, and the position command of the cycle
\* carries that same sequence.
C2_HistoryReplacedWholesale ==
    [][ /\ (AcceptStep => board_moves' = file.moves /\ replaced' = board_moves)
        /\ (cmds' # <<>> => cmds'[1] = PositionCmd(board_moves'))
      ]_vars

\* a shorter history that is no prefix of the old one was accepted and sent
C2_Witness ==
    /\ pollPc = "turn_read"
    /\ replaced = <<TokA1A2, TokC2C3>>
    /\ board_moves = <<TokC2C3>>
    /\ cmds[1] = PositionCmd(<<TokC2C3>>)

C4_NoEngineAfterShutdown ==
    shutdown_calls >= 1 => engine # "alive"

LaterShutdownStep ==
    /\ shutdown_calls >= 1
    /\ \/ mainPc = "shut" /\ mainPc' = "stopping"
       \/ mainPc = "stopping" /\ mainPc' = "shut"

\* C6: a second or later shutdown() leaves the stop flag set and the engine
\* not running, and changes nothing at all when the engine was already
\* terminated.
C6_ShutdownIdempotent ==
    [][ LaterShutdownStep =>
          /\ stop_event /\ stop_event'
          /\ (mainPc' = "shut" => engine' # "alive")
          /\ mainPc' \in {"stopping", "shut"}
          /\ (engine # "alive" =>
                UNCHANGED <<engVars, pollVars, geometry, stop_event, file, artifact_read,
                            call_info, searched, fetchVars>>)
      ]_vars

\* shutdown() has completed twice
C6_Witness ==
    /\ shutdown_calls = 2
    /\ mainPc = "shut"
    /\ stop_event
    /\ engine = "exited"

\* C7: without a geometry the process is still starting up or has exited: the
\* polling thread does not exist, nothing was observed, sent to the engine by
\* a query, or done with the pointer.
C7_NoOrchestrationWithoutGeometry ==
    geometry = NoGeometry =>
        /\ mainPc \in {"init", "focus", "locate", "exited"}
        /\ pollPc = "notstarted"
        /\ last_sync_time = 0
        /\ board_moves = <<>>
        /\ cmds = <<>>
        /\ pointer = <<>>

\* calibration ran on a screen with the anchor and failed: the process exited
C7_Witness ==
    /\ mainPc = "exited"
    /\ engine # "none"
    /\ "R" \in DOMAIN screen_rooks
    /\ geometry = NoGeometry

\* the logical state of the orchestrator
Phase ==
    IF mainPc \in {"init", "focus", "locate", "start_thread"} THEN "Calibrating"
    ELSE IF mainPc = "exited" THEN "Exited"
    ELSE IF pollPc \in {"loop", "stat", "read", "sleep"} THEN "IdlePolling"
    ELSE IF pollPc \in {"turn_live", "turn_send", "turn_read"} THEN "EvaluatingTurn"
    ELSE IF pollPc \in {"search_live", "search_send", "search_read", "gui"}
         THEN "ExecutingMove"
    ELSE "Stopped"

PhaseSteps ==
    { <<"Calibrating", "IdlePolling">>, <<"IdlePolling", "EvaluatingTurn">>,
      <<"EvaluatingTurn", "ExecutingMove">>, <<"EvaluatingTurn", "IdlePolling">>,
      <<"ExecutingMove", "IdlePolling">>,
      <<"Calibrating", "Exited">>, <<"IdlePolling", "Stopped">> }

\* C8: the orchestrator moves Calibrating -> Idle-Polling -> Evaluating-Turn
\* -> (Executing-Move ->) Idle-Polling only; the polling thread exists only
\* after calibration, and the geometry is written once, by calibration.
C8_CalibrateOnceThenCycle ==
    [][ /\ (Phase' # Phase => <<Phase, Phase'>> \in PhaseSteps)
        /\ (geometry' # geometry => mainPc = "locate" /\ geometry = NoGeometry)
        /\ (pollPc' # "notstarted" => geometry' # NoGeometry /\ Phase' # "Calibrating")
      ]_vars

\* a move was executed through the geometry
C8_Witness ==
    /\ pollPc = "sleep"
    /\ pointer # <<>>
    /\ geometry # NoGeometry

\* the detections restricted to some markers
Only(found, S) == [c \in DOMAIN found \cap S |-> found[c]]

\* C9: with Red, Green and Blue found, the geometry has origin Red, column
\* vector (Green - Red)/7 and row vector (Blue - Red)/7, and is the geometry
\* computed from those three alone, whatever Yellow is.
C9_DirectFromEdges ==
    (mainPc # "locate" /\ geometry # NoGeometry /\ {"R", "G", "B"} \subseteq DOMAIN screen_rooks)
    => /\ geometry.origin_a1_center_px = ToFloat(screen_rooks["R"])
       /\ VScale(BoardSteps, geometry.unit_vec_col)
            = VSub(ToFloat(screen_rooks["G"]), ToFloat(screen_rooks["R"]))
       /\ VScale(BoardSteps, geometry.unit_vec_row)
            = VSub(ToFloat(screen_rooks["B"]), ToFloat(screen_rooks["R"]))
       /\ geometry = CalculateGeometry(FloatCoords(Only(screen_rooks, {"R", "G", "B"})))

\* all four rooks found, Yellow far from where the edges put it
C9_Witness ==
    /\ mainPc = "start_thread"
    /\ screen_rooks = [c \in Markers |->
          IF c = "R" THEN <<100, 100>> ELSE IF c = "G" THEN <<800, 100>>
          ELSE IF c = "B" THEN <<100, 800>> ELSE <<-700, -700>>]
    /\ geometry.unit_vec_col = ToFloat(<<100, 0>>)
    /\ geometry.unit_vec_row = ToFloat(<<0, 100>>)

\* C10: with only Red and Yellow found, each sign pattern of (dx, dy) =
\* Yellow - Red selects its own assignment of the two vectors; Red (0,0) and
\* Yellow (700,-700) give column (100,0) and row (0,-100).
C10_DiagonalQuadrants ==
    (mainPc # "locate" /\ geometry # NoGeometry /\ DOMAIN screen_rooks = {"R", "Y"})
    => LET dx == screen_rooks["Y"][1] - screen_rooks["R"][1]
           dy == screen_rooks["Y"][2] - screen_rooks["R"][2]
           col7 == VScale(BoardSteps, geometry.unit_vec_col)
           row7 == VScale(BoardSteps, geometry.unit_vec_row)
       IN /\ (dx > 0 /\ dy < 0 =>
                col7 = ToFloat(<<Abs(dx), 0>>) /\ row7 = ToFloat(<<0, -Abs(dy)>>))
          /\ (dx < 0 /\ dy < 0 =>
                col7 = ToFloat(<<0, -Abs(dy)>>) /\ row7 = ToFloat(<<-Abs(dx), 0>>))
          /\ (dx < 0 /\ dy > 0 =>
                col7 = ToFloat(<<-Abs(dx), 0>>) /\ row7 = ToFloat(<<0, Abs(dy)>>))
          /\ (dx > 0 /\ dy > 0 =>
                col7 = ToFloat(<<0, Abs(dy)>>) /\ row7 = ToFloat(<<Abs(dx), 0>>))
          /\ (screen_rooks["R"] = <<0, 0>> /\ screen_rooks["Y"] = <<700, -700>> =>
                /\ geometry.unit_vec_col = ToFloat(<<100, 0>>)
                /\ geometry.unit_vec_row = ToFloat(<<0, -100>>))

\* the standard orientation was deduced from Red (0,0) and Yellow (700,-700)
C10_Witness ==
    /\ mainPc = "start_thread"
    /\ screen_rooks = [c \in {"R", "Y"} |-> IF c = "R" THEN <<0, 0>> ELSE <<700, -700>>]
    /\ geometry.unit_vec_col = ToFloat(<<100, 0>>)
    /\ geometry.unit_vec_row = ToFloat(<<0, -100>>)

Dot(u, v) == u[1] * v[1] + u[2] * v[2]

\* C11: every geometry the solver returns has two non-zero basis vectors that
\* are orthogonal (the part of the claim that needs no tolerance); inputs that
\* cannot give such vectors make the solver fail.
C11_GeometryWellFormed ==
    geometry # NoGeometry =>
        /\ geometry.unit_vec_col # <<0, 0>>
        /\ geometry.unit_vec_row # <<0, 0>>
        /\ Dot(geometry.unit_vec_col, geometry.unit_vec_row) = 0

\* the markers from which calibrate() can solve: the anchor, and both edge
\* rooks or the diagonal rook
Solvable(found) ==
    /\ "R" \in DOMAIN found
    /\ \/ {"G", "B"} \subseteq DOMAIN found
       \/ "Y" \in DOMAIN found

CellIndex(sq) == <<IndexIn(Files, sq[1]) - 1, IndexIn(Digits, sq[2]) - 1>>

\* origin + c * column_vector + r * row_vector, exactly, in sevenths of a pixel
AffinePx(geo, cr) ==
    VAdd(VAdd(geo.origin_a1_center_px, VScale(cr[1], geo.unit_vec_col)),
         VScale(cr[2], geo.unit_vec_row))

\* p is the integer conversion of a float that equals x up to rounding
IsIntOf(p, x) ==
    /\ p * x >= 0
    /\ Abs(BoardSteps * p) <= Abs(x)
    /\ Abs(x) - Abs(BoardSteps * p) <= BoardSteps
    /\ (x % BoardSteps # 0 => Abs(x) - Abs(BoardSteps * p) < BoardSteps)

WholePixels(u) == u[1] % BoardSteps = 0 /\ u[2] % BoardSteps = 0

\* the source and destination cells of the token that is being executed
SrcSq == SubSeq(ret.value, 1, 2)
DstSq == SubSeq(ret.value, 3, 4)
Executed == pollPc = "sleep" /\ pointer # <<>>

RgbExample ==
    [c \in {"R", "G", "B"} |->
        IF c = "R" THEN <<100, 100>> ELSE IF c = "G" THEN <<800, 100>> ELSE <<100, 800>>]

\* C13: the pixel that _alg_to_px gives for a cell (c, r) is origin +
\* c * column_vector + r * row_vector converted to integers; cell (0,0) is
\* exactly the anchor's detected pixel, and with anchor (100,100), G (800,100)
\* and B (100,800) cell (3,2) is pixel (400,300).
C13_CellToPixel ==
    Executed =>
        LET cr == CellIndex(SrcSq)
            x == AffinePx(geometry, cr)
            px == pointer[1].px
        IN /\ IsIntOf(px[1], x[1]) /\ IsIntOf(px[2], x[2])
           /\ (WholePixels(geometry.unit_vec_col) /\ WholePixels(geometry.unit_vec_row)
                 => ToFloat(px) = x)
           /\ (cr = <<0, 0>> => px = screen_rooks["R"])
           /\ (screen_rooks = RgbExample /\ cr = <<3, 2>> => px = <<400, 300>>)

\* the move whose source is cell d3 was executed on the example screen
C13_Witness ==
    /\ Executed
    /\ screen_rooks = RgbExample
    /\ SrcSq = <<"d", "3">>
    /\ pointer[1].px = <<400, 300>>

\* C14: the two different cells of an executed move never land on the same
\* pixel, for any geometry the solver returned (a consequence of the round
\* trip cell -> pixel -> cell, which needs the map to be one-to-one).
C14_CellsKeptApart ==
    Executed /\ SrcSq # DstSq => pointer[1].px # pointer[3].px

\* the button and motion events that a sequence of pyautogui calls produces,
\* the pointer being at `at`: moveTo moves; click() presses and releases where
\* the pointer is; dragTo presses where the pointer is, moves, and releases
RECURSIVE PointerEvents(_, _)
PointerEvents(calls, at) ==
    IF calls = <<>> THEN <<>>
    ELSE LET c == Head(calls) IN
         IF c.op = "moveTo"
         THEN <<[ev |-> "move", px |-> c.px]>> \o PointerEvents(Tail(calls), c.px)
         ELSE IF c.op = "click"
         THEN <<[ev |-> "press", px |-> at], [ev |-> "release", px |-> at]>>
                \o PointerEvents(Tail(calls), at)
         ELSE <<[ev |-> "press", px |-> at], [ev |-> "move", px |-> c.px],
                [ev |-> "release", px |-> c.px]>> \o PointerEvents(Tail(calls), c.px)

\* the events of the iteration; the pointer starts anywhere (here the origin
\* of the screen), the first call being a moveTo
IterationEvents == PointerEvents(pointer, <<0, 0>>)
EventsOf(kind) == SelectSeq(IterationEvents, LAMBDA e : e.ev = kind)

TokenA1A2Executed == Executed /\ ret.value = TokA1A2

\* C19 (as stated): executing a token issues exactly one press, at the source
\* cell's pixel, and exactly one release, at the destination cell's pixel.
C19_OnePressOneRelease ==
    Executed =>
        \E src_px \in AlgToPx(geometry, SrcSq), dst_px \in AlgToPx(geometry, DstSq) :
            /\ EventsOf("press") = <<[ev |-> "press", px |-> src_px]>>
            /\ EventsOf("release") = <<[ev |-> "release", px |-> dst_px]>>

\* C19 (amended): executing a token moves to the source cell's pixel, clicks
\* there (a press and a release), then drags: a press at the source pixel, a
\* move to the destination cell's pixel and a release there, in that order,
\* source being characters 0-1 and destination characters 2-3 of the token;
\* for "a1a2" the presses are at the pixel of cell (0,0) and the last release
\* at the pixel of cell (0,1).
C19_ClickThenDrag ==
    Executed =>
        /\ \E src_px \in AlgToPx(geometry, SrcSq), dst_px \in AlgToPx(geometry, DstSq) :
              IterationEvents =
                << [ev |-> "move", px |-> src_px],
                   [ev |-> "press", px |-> src_px], [ev |-> "release", px |-> src_px],
                   [ev |-> "press", px |-> src_px], [ev |-> "move", px |-> dst_px],
                   [ev |-> "release", px |-> dst_px] >>
        /\ (ret.value = TokA1A2 =>
              LET last == IterationEvents[Len(IterationEvents)]
                  x == AffinePx(geometry, <<0, 1>>)
              IN /\ \A i \in 1..Len(EventsOf("press")) :
                        EventsOf("press")[i].px = screen_rooks["R"]
                 /\ last.ev = "release"
                 /\ IsIntOf(last.px[1], x[1]) /\ IsIntOf(last.px[2], x[2]))

\* "a1a2" was executed on the example screen: released at (100,200)
C19_Witness ==
    /\ TokenA1A2Executed
    /\ screen_rooks = RgbExample
    /\ Len(IterationEvents) = 6
    /\ IterationEvents[6] = [ev |-> "release", px |-> <<100, 200>>]

\* a step in which the call in progress takes a line from the engine's
\* output, or ends
ReadStep(pc) == pollPc = pc /\ (Len(eng_out') < Len(eng_out) \/ pollPc' # pc)

\* C15: get_turn_color(history) has sent one position command with the whole
\* history and then one turn query when it reads; it returns on the first
\* line that begins with "turn": the identity that the line names, or None
\* when the line names "gameover" or nothing; it returns None when the stream
\* closes first; any other line is consumed and changes nothing else.
C15_GetTurnColor ==
    [][ /\ (pollPc' = "turn_read" => cmds' = <<PositionCmd(moves'), TurnCmd>>)
        /\ (ReadStep("turn_read") =>
              IF eng_out # <<>>
              THEN LET line == Head(eng_out) IN
                   IF line[1] = "turn"
                   THEN /\ pollPc' # "turn_read"
                        /\ ret' = [kind |-> "returned",
                                   value |-> IF Len(line) > 1 /\ line[2] # "gameover"
                                             THEN line[2] ELSE None]
                   ELSE /\ pollPc' = "turn_read"
                        /\ UNCHANGED <<ret, cmds, board_moves, pointer>>
              ELSE /\ engine = "exited"
                   /\ pollPc' # "turn_read"
                   /\ ret' = [kind |-> "returned", value |-> None])
      ]_vars

\* get_turn_color returned None on an answer line of a running engine
C15_Witness ==
    /\ pollPc = "sleep"
    /\ cmds = <<PositionCmd(<<TokC2C3>>), TurnCmd>>
    /\ ret = [kind |-> "returned", value |-> None]
    /\ engine = "alive"

\* C16: search(history) has sent one position command with the whole history
\* and then one search command with the configured budget when it reads; it
\* returns the token of the first line that begins with "bestmove", and None,
\* without raising, when the stream ends before such a line.
C16_Search ==
    [][ /\ (pollPc' = "search_read" => cmds' = <<PositionCmd(board_moves'), <<"go sims ", Sims>> >>)
        /\ (ReadStep("search_read") =>
              IF eng_out # <<>>
              THEN LET line == Head(eng_out) IN
                   IF line[1] = "bestmove"
                   THEN /\ pollPc' # "search_read"
                        /\ ret' = [kind |-> "returned",
                                   value |-> IF Len(line) >= 2 THEN line[2] ELSE NoMove]
                   ELSE /\ pollPc' = "search_read"
                        /\ UNCHANGED <<ret, cmds, board_moves, pointer>>
              ELSE /\ engine = "exited"
                   /\ pollPc' = "sleep"
                   /\ ret' = [kind |-> "returned", value |-> NoMove])
      ]_vars

\* search returned None because the engine's output ended
C16_Witness ==
    /\ pollPc = "sleep"
    /\ cmds = <<PositionCmd(<<TokC2C3>>), GoCmd>>
    /\ ret = [kind |-> "returned", value |-> NoMove]
    /\ engine = "exited"
    /\ pointer = <<>>

\* the step in which get_turn_color / search returns
TurnReturns == pollPc = "turn_read" /\ pollPc' # "turn_read"
SearchReturns == pollPc = "search_read" /\ pollPc' # "search_read"

\* C17: search is entered only from a get_turn_color result that is a player
\* identity equal to the local player's; on None or another player's identity
\* the cycle ends with no search and no pointer input, the process keeps
\* running and the thread goes back to the head of its loop.
C17_SearchOnlyOnMyTurn ==
    [][ /\ (pollPc' = "search_live" /\ pollPc # "search_live" =>
              /\ TurnReturns
              /\ ret'.value # None
              /\ Upper(ret'.value) = my_color)
        /\ (pollPc' \in {"search_send", "search_read"} /\ pollPc # pollPc' =>
              pollPc \in {"search_live", "search_send"})
        /\ (TurnReturns /\ (ret'.value = None \/ Upper(ret'.value) # my_color) =>
              /\ pollPc' = "sleep"
              /\ pointer' = <<>>
              /\ cmds' = <<PositionCmd(moves), TurnCmd>>
              /\ mainPc' = mainPc)
        /\ (pollPc = "sleep" /\ pollPc' # "sleep" =>
              pollPc' = "loop" /\ mainPc' = mainPc)
        /\ (pointer # <<>> => cmds # <<>> /\ cmds[2] = GoCmd)
      ]_vars

\* another player is to move: the cycle ended after the turn query
C17_Witness ==
    /\ pollPc = "sleep"
    /\ ret = [kind |-> "returned", value |-> "b"]
    /\ cmds = <<PositionCmd(<<TokC2C3>>), TurnCmd>>
    /\ pointer = <<>>
    /\ mainPc = "running"

\* C18: pointer calls are issued only by the move execution of a cycle in
\* which search returned a token and the window was focused; when search
\* returns no token, or the window cannot be focused, the cycle ends with no
\* pointer call and the loop goes on.
C18_PointerOnlyAfterTokenAndFocus ==
    [][ /\ (pointer' # pointer /\ pointer' # <<>> =>
              /\ pollPc = "gui"
              /\ ret.kind = "returned" /\ ret.value # NoMove
              /\ cmds[2] = GoCmd
              /\ gui_focus' = "ok")
        /\ (pollPc' = "gui" /\ pollPc # "gui" => SearchReturns /\ ret'.value # NoMove)
        /\ (SearchReturns /\ ret'.value = NoMove =>
              pollPc' = "sleep" /\ pointer' = <<>> /\ mainPc' = mainPc)
        /\ (pollPc = "gui" /\ pollPc' # "gui" /\ gui_focus' = "failed" =>
              pollPc' = "sleep" /\ pointer' = <<>> /\ mainPc' = mainPc)
      ]_vars

\* search returned a token and the window could not be focused
C18_Witness ==
    /\ pollPc = "sleep"
    /\ gui_focus = "failed"
    /\ cmds[2] = GoCmd
    /\ ret.value = TokA1A2
    /\ pointer = <<>>

\* the step in which _poll_file opens and parses the artifact
OpenStep == pollPc = "read" /\ pollPc' # "read"

\* C20: the artifact is opened in an iteration only if it was rewritten since
\* it was last opened: an artifact that has been read is not read again until
\* the fetcher replaces it.
C20_NoRereadWithoutRewrite ==
    [][OpenStep => ~artifact_read]_vars

\* the polling thread is inside an iteration of its loop
InIteration == pollPc \notin {"notstarted", "loop", "stopped"}

DiagonalPath ==
    /\ mainPc # "locate"
    /\ geometry # NoGeometry
    /\ "Y" \in DOMAIN screen_rooks
    /\ ~({"G", "B"} \subseteq DOMAIN screen_rooks)

\* what the sign pattern of Yellow - Red alone gives
Deduced ==
    LET vec_diag == VSub(ToFloat(screen_rooks["Y"]), ToFloat(screen_rooks["R"]))
    IN DiagonalVectors(vec_diag[1], vec_diag[2])

\* C23: in the diagonal deduction an edge rook that was found replaces the
\* vector of its own axis and no other: with Green the column vector is
\* (Green - Red)/7 and the row vector is the deduced one, with Blue the row
\* vector is (Blue - Red)/7 and the column vector is the deduced one, and with
\* neither both vectors are the deduced ones.
C23_EdgeOverwritesOwnAxis ==
    DiagonalPath =>
        /\ ("G" \in DOMAIN screen_rooks =>
              /\ VScale(BoardSteps, geometry.unit_vec_col)
                   = VSub(ToFloat(screen_rooks["G"]), ToFloat(screen_rooks["R"]))
              /\ geometry.unit_vec_row = Deduced.row)
        /\ ("B" \in DOMAIN screen_rooks =>
              /\ VScale(BoardSteps, geometry.unit_vec_row)
                   = VSub(ToFloat(screen_rooks["B"]), ToFloat(screen_rooks["R"]))
              /\ geometry.unit_vec_col = Deduced.col)
        /\ (DOMAIN screen_rooks = {"R", "Y"} =>
              /\ geometry.unit_vec_col = Deduced.col
              /\ geometry.unit_vec_row = Deduced.row)

\* Red, Green and Yellow found, and Green's vector is not the one the
\* diagonal gives: the column vector was overwritten, the row vector kept
C23_Witness ==
    /\ DiagonalPath
    /\ DOMAIN screen_rooks = {"R", "G", "Y"}
    /\ geometry.unit_vec_col # Deduced.col
    /\ geometry.unit_vec_row = Deduced.row
    /\ geometry.unit_vec_row # <<0, 0>>

\* test_calibration: the point origin + col * u_col + row * u_row of a corner
\* cell, as a real number (the float result differs from it by rounding only)
Corner(col, row) == AffinePx(geometry, <<col, row>>)

\* calibration returned a geometry
Calibrated == mainPc # "locate" /\ geometry # NoGeometry

\* the detected position of a rook, as a float vector
Detected(c) == ToFloat(screen_rooks[c])

\* C24 as claimed: the four corner cells land on the rooks that were
\* detected, h8 on Yellow whenever Yellow was detected.
C24_CornersOnAllMarkers ==
    Calibrated =>
        /\ Corner(0, 0) = Detected("R")
        /\ ("G" \in DOMAIN screen_rooks => Corner(BoardSteps, 0) = Detected("G"))
        /\ ("B" \in DOMAIN screen_rooks => Corner(0, BoardSteps) = Detected("B"))
        /\ ("Y" \in DOMAIN screen_rooks => Corner(BoardSteps, BoardSteps) = Detected("Y"))

\* Yellow lies on the anchor's vertical line above it or on its horizontal
\* line left of it: the plain "else" of the sign test takes these for the
\* (+, +) pattern
YellowBackOnAxis ==
    LET dx == screen_rooks["Y"][1] - screen_rooks["R"][1]
        dy == screen_rooks["Y"][2] - screen_rooks["R"][2]
    IN (dx = 0 /\ dy < 0) \/ (dy = 0 /\ dx < 0)

\* C24 (amended): a1 lands on the anchor, h1 on Green whenever Green was
\* detected and a8 on Blue whenever Blue was detected.  h8 lands on Yellow
\* when Yellow was detected with no edge rook and is not back on one of the
\* anchor's axes; with both edge rooks h8 is Green + Blue - Red, whatever
\* Yellow is, and with one edge rook it is that rook moved by seven times the
\* vector deduced for the other axis.
C24_CornersOnMarkers ==
    Calibrated =>
        /\ Corner(0, 0) = Detected("R")
        /\ ("G" \in DOMAIN screen_rooks => Corner(BoardSteps, 0) = Detected("G"))
        /\ ("B" \in DOMAIN screen_rooks => Corner(0, BoardSteps) = Detected("B"))
        /\ (DOMAIN screen_rooks = {"R", "Y"} /\ ~YellowBackOnAxis
              => Corner(BoardSteps, BoardSteps) = Detected("Y"))
        /\ ({"G", "B"} \subseteq DOMAIN screen_rooks
              => Corner(BoardSteps, BoardSteps)
                   = VSub(VAdd(Detected("G"), Detected("B")), Detected("R")))
        /\ (DOMAIN screen_rooks = {"R", "G", "Y"}
              => Corner(BoardSteps, BoardSteps)
                   = VAdd(Detected("G"), VScale(BoardSteps, Deduced.row)))
        /\ (DOMAIN screen_rooks = {"R", "B", "Y"}
              => Corner(BoardSteps, BoardSteps)
                   = VAdd(Detected("B"), VScale(BoardSteps, Deduced.col)))

\* all four rooks detected, Yellow not where the edges put h8: h1 is on
\* Green, a8 on Blue, and h8 is off Yellow
C24_Witness ==
    /\ Calibrated
    /\ DOMAIN screen_rooks = Markers
    /\ Corner(BoardSteps, 0) = Detected("G")
    /\ Corner(0, BoardSteps) = Detected("B")
    /\ Corner(BoardSteps, BoardSteps) # Detected("Y")
    /\ Corner(BoardSteps, 0) # Corner(0, BoardSteps)

\* the step in which a call writes its two commands
SendStep == cmds = <<>> /\ cmds' # <<>>

\* C25: the commands a call writes are the position command made of the whole
\* history passed to that call, followed by the call's query, and nothing
\* else: get_turn_color(moves) writes "position moves <moves>" and "turn",
\* search(board_moves) writes "position moves <board_moves>" and "go sims N",
\* whether or not the subprocess was restarted and whatever was sent before.
C25_CallsCarryWholeHistory ==
    [][ SendStep =>
          /\ pollPc \in {"turn_send", "search_send"}
          /\ (pollPc = "turn_send" =>
                cmds' = << <<"position moves ">> \o JoinMoves(moves), TurnCmd >>)
          /\ (pollPc = "search_send" =>
                cmds' = << <<"position moves ">> \o JoinMoves(board_moves), GoCmd >>)
      ]_vars

\* a two-move history replaced a one-move history, the subprocess was found
\* dead and restarted, and the call sent the two moves to the new subprocess
C25_Witness ==
    /\ pollPc = "turn_read"
    /\ call_info.restarted
    /\ replaced = <<TokC2C3>>
    /\ cmds = << <<"position moves ">> \o JoinMoves(<<TokA1A2, TokC2C3>>), TurnCmd >>

\* the query that the call in progress has written
QueryInProgress ==
    IF pollPc = "turn_read" THEN "turn"
    ELSE IF pollPc = "search_read" THEN "search"
    ELSE "none"

\* the first word of the answer line that a query is answered by
AnswerWord(query) == IF query = "turn" THEN "turn" ELSE "bestmove"

\* C26: one request at a time.  A call writes its commands only when no
\* request is unanswered and no line of an earlier answer is left in the
\* stream; a request is unanswered only while the call that wrote it is
\* reading; and every line in the stream was written by the engine for the
\* request of the call that is reading, so the line a call returns on answers
\* that call's own request.
C26_OneRequestInFlight ==
    /\ [][SendStep => eng_req = "none" /\ eng_out = <<>>]_vars
    /\ [](eng_req # "none" => eng_req = QueryInProgress)
    /\ [](eng_out # <<>> =>
            /\ QueryInProgress # "none"
            /\ \A i \in 1..Len(eng_out) :
                  eng_out[i][1] \in {"info", AnswerWord(QueryInProgress)})

\* the turn query was answered and consumed, the search request was written
\* after it, and the engine's answer to the search is in the stream
C26_Witness ==
    /\ pollPc = "search_read"
    /\ cmds[2] = GoCmd
    /\ eng_req = "none"
    /\ eng_out = << <<"info">>, <<"bestmove", TokA1A2>> >>

\* Only what the program and the operating system schedule: the polling
\* thread runs, shutdown() completes, and a terminated subprocess exits.
\* Whether and when a running engine answers is left to the engine.
SchedSpec ==
    /\ Spec
    /\ WF_vars(PollNext)
    /\ WF_vars(ShutdownStopEngine)
    /\ WF_vars(EngineExit /\ engine = "terminating")

\* the polling thread is blocked in, or about to call, readline()
InRead == pollPc \in {"turn_read", "search_read"}

\* C28: every get_turn_color and search call that has written its request
\* eventually returns.
C28_CallsReturn == InRead ~> ~InRead

\* the move history that the artifact holds
WrittenMoves == file.moves

\* a token of the format of the claim: one character, or a source cell and a
\* destination cell in columns a-h and rows 1-8 with at most one more character
WellFormedToken(tok) ==
    \/ Len(tok) = 1
    \/ /\ Len(tok) \in {4, 5}
       /\ InSeq(Files, tok[1]) /\ InSeq(Digits, tok[2])
       /\ InSeq(Files, tok[3]) /\ InSeq(Digits, tok[4])

\* C22: every move token that the fetcher writes into the artifact is a
\* single reserved character or four characters naming a source and a
\* destination cell in a-h / 1-8 notation, with at most one trailing
\* promotion character.
C22_TokensWellFormed ==
    \A i \in 1..Len(WrittenMoves) : WellFormedToken(WrittenMoves[i])

\* the file holds the three fields of a payload that was dumped completely
Complete(f) == DOMAIN f = {"mtime", "detection_timestamp", "moves"}

\* C29: the artifact changes only in the rename step, to the complete
\* temporary file whose move list is the scraped list and differs from the
\* list of the last write; the list of the last write is then the written
\* one; the detection timestamp of a write is greater than that of the write
\* before it; and at every moment the artifact is a complete payload.
C29_AtomicWritesOnChange ==
    /\ [][ file' # file =>
             /\ fetchPc = "replace"
             /\ Complete(temp_file)
             /\ file' = temp_file
             /\ file'.moves = current_moves
             /\ current_moves # last_sent_moves
             /\ last_sent_moves' = file'.moves
             /\ file'.detection_timestamp > file.detection_timestamp
         ]_vars
    /\ [](Complete(file) /\ last_sent_moves = file.moves)

\* the artifact holds a first write (one move, made at tick 1), and the
\* temporary file of a second write (another list, a later tick) is complete
\* and about to be renamed over it
C29_Witness ==
    /\ fetchPc = "replace"
    /\ file.detection_timestamp = 1
    /\ file.moves = <<StandardizeMoveNotation(TitleCheck)>>
    /\ Complete(temp_file)
    /\ temp_file.detection_timestamp = 2
    /\ temp_file.moves = << <<"R">> >>

\* the step in which open, json.load, data['detection_timestamp'] or
\* data['moves'] raises
ReadFailStep == pollPc = "read" /\ ret'.kind = "raised"

\* the iteration in progress is one whose read failed
ReadFailed == ret = [kind |-> "raised", value |-> "read"]

\* C27: a read of the artifact that fails changes neither last_sync_time nor
\* board_moves and goes straight to the sleep that ends the iteration; no
\* command is written to the engine and no pointer call is made in that
\* iteration; the file still passes the modification-time test, and unless
\* the loop is stopped the artifact is opened again.
C27_FailedReadRetried ==
    /\ [][ ReadFailStep =>
             /\ last_sync_time' = last_sync_time
             /\ board_moves' = board_moves
             /\ pollPc' = "sleep"
             /\ UNCHANGED <<cmds, pointer, engVars, searched>>
             /\ file'.mtime > last_sync_time'
         ]_vars
    /\ [](ReadFailed => pollPc = "sleep" /\ cmds = <<>> /\ pointer = <<>>)
    /\ ReadFailed ~> (pollPc \in {"read", "stopped"})

\* the step in which search is entered (its liveness check)
SearchStep == pollPc = "search_live" /\ pollPc' # "search_live"

\* a step of the handling of an accepted observation
HandlingStep ==
    pollPc \in {"turn_live", "turn_send", "turn_read",
                "search_live", "search_send", "search_read", "gui"}

\* C30: last_sync_time takes the observation's timestamp in the step that
\* accepts it, before any command or pointer call of its handling, and no
\* step of the handling, failed or not, changes it; so search is entered at
\* most once under one value of last_sync_time, and a pointer sequence is
\* issued only in a cycle whose search was that one.
C30_HandledAtMostOnce ==
    [][ /\ (AcceptStep => /\ last_sync_time' = file.detection_timestamp
                          /\ last_sync_time' > last_sync_time
                          /\ cmds' = <<>> /\ pointer' = <<>>)
        /\ (HandlingStep => last_sync_time' = last_sync_time)
        /\ (SearchStep => last_sync_time \notin searched)
        /\ (pointer' # pointer /\ pointer' # <<>> => last_sync_time \in searched)
      ]_vars

\* search returned a token, the window was focused and the pointer call
\* raised; the artifact is unchanged and will be read again
C30_Witness ==
    /\ pollPc = "sleep"
    /\ cmds # <<>> /\ cmds[2] = GoCmd
    /\ ret.kind = "returned" /\ ret.value = TokA1A2
    /\ gui_focus = "ok"
    /\ pointer = <<>>
    /\ last_sync_time = file.detection_timestamp
    /\ file.mtime > last_sync_time
    /\ last_sync_time \in searched

\* the order in which _on_new_state, _play_move and _execute_gui_move go
\* through their calls, the cycle ending in the sleep of _poll_file
HandlingOrder ==
    [pc \in {"turn_live", "turn_send", "turn_read", "search_live", "search_send",
             "search_read", "gui", "sleep"} |->
        CASE pc = "turn_live" -> 1 [] pc = "turn_send" -> 2 [] pc = "turn_read" -> 3
          [] pc = "search_live" -> 4 [] pc = "search_send" -> 5
          [] pc = "search_read" -> 6 [] pc = "gui" -> 7 [] pc = "sleep" -> 8]

\* C31: get_turn_color is entered in the step that accepts an observation and
\* only there; from there the cycle only goes forward through get_turn_color,
\* search and the pointer sequence to the sleep, so each is made at most once
\* for the observation; the history is not replaced on the way, and search
\* sends the history that the get_turn_color call of the cycle sent.
C31_OneCallEachPerObservation ==
    [][ /\ (AcceptStep => pollPc' = "turn_live" /\ moves' = board_moves')
        /\ (pollPc' = "turn_live" /\ pollPc # "turn_live" => AcceptStep)
        /\ (HandlingStep =>
              /\ pollPc' \in DOMAIN HandlingOrder
              /\ pollPc' # pollPc => HandlingOrder[pollPc'] > HandlingOrder[pollPc]
              /\ board_moves' = board_moves /\ moves' = moves)
        /\ (SearchStep => /\ cmds = <<PositionCmd(board_moves), TurnCmd>>
                          /\ last_sync_time \notin searched)
        /\ (pollPc = "search_send" /\ cmds' # cmds =>
              cmds' = <<PositionCmd(moves), GoCmd>> /\ moves = board_moves)
        /\ (pointer' # pointer /\ pointer' # <<>> => pollPc = "gui" /\ pointer = <<>>)
      ]_vars

\* a cycle in which the turn was asked, the search made with the same
\* two-move history and the move executed
C31_Witness ==
    /\ pollPc = "sleep"
    /\ Len(pointer) = 3
    /\ Len(board_moves) = 2
    /\ moves = board_moves
    /\ cmds = <<PositionCmd(board_moves), GoCmd>>
    /\ last_sync_time \in searched

\* the artifact in place holds an observation that has not been processed,
\* written with a modification time not earlier than its timestamp
Pending ==
    /\ file.detection_timestamp > last_sync_time
    /\ file.mtime >= file.detection_timestamp

C33_ResetNeverAnObservation ==
    /\ [][ OpenStep /\ file = ResetFile =>
             /\ pollPc' = "sleep"
             /\ UNCHANGED <<last_sync_time, board_moves, replaced, cmds, pointer,
                            engVars, searched>> ]_vars
    /\ [](last_sync_time = 0 =>
             /\ ~HandlingStep
             /\ board_moves = <<>> /\ cmds = <<>> /\ pointer = <<>>
             /\ searched = {} /\ eng_req = "none")

\* the reset artifact has been opened and ignored, nothing else having been
\* written, and the thread is in the sleep that ends the iteration
C33_Witness ==
    /\ pollPc = "sleep"
    /\ file = ResetFile
    /\ artifact_read
    /\ last_sync_time = 0
    /\ ret.kind = "none"
    /\ engine = "alive"

\* a step in which _calibrate_board, or the construction of the locator in
\* it, ends the process
FatalStartupStep == mainPc \in {"focus", "locate"} /\ mainPc' = "exited"

\* C34: the engine subprocess exists before the first focus attempt of the
\* calibration; terminate is sent to it only by shutdown(); every fatal step
\* of the startup taken after that leaves the subprocess as it is, and a
\* process that exited that way has an engine that was never sent terminate.
C34_EngineOutlivesFatalStartup ==
    /\ [][ /\ (engine = "none" /\ engine' # "none" => mainPc = "init")
           /\ (engine' = "terminating" /\ engine # "terminating" => mainPc = "stopping")
           /\ (FatalStartupStep =>
                 /\ engine \in {"alive", "exited"}
                 /\ UNCHANGED <<engVars, shutdown_calls>>)
         ]_vars
    /\ [](mainPc \in {"focus", "locate", "start_thread"} => engine # "none")
    /\ [](mainPc = "exited" /\ engine # "none" =>
             engine \in {"alive", "exited"} /\ shutdown_calls = 0)

\* the window was focused, calibration failed on a screen without the anchor,
\* and the process is gone with its engine running
C34_Witness ==
    /\ mainPc = "exited"
    /\ engine = "alive"
    /\ shutdown_calls = 0
    /\ pollPc = "notstarted"
    /\ "R" \notin DOMAIN screen_rooks

====
